---- MODULE Spec2Model ----
(***************************************************************************)
(* Model of scripts/update-versions.js, the Wemp service version updater.  *)
(*                                                                         *)
(* One run of updateVersions() reads api/wemp/versions.json, asks each     *)
(* service fetcher (nginx, mariadb, php, phpmyadmin, in that order) for a  *)
(* candidate, admits it into the in-memory manifest, and finally writes    *)
(* the manifest and the GitHub Actions outputs.  Every await of the script *)
(* is a separate step of the model: the request is issued in one action    *)
(* and answered in the next one.                                           *)
(*                                                                         *)
(* Version strings are canonical "X.Y.Z" strings (no leading zeros), so    *)
(* string equality of two versions is equality of their number triples; a  *)
(* version is the triple <<X, Y, Z>> wrapped in a tagged record, next to   *)
(* the two other values the script passes around: null/undefined and the   *)
(* string 'none'.                                                          *)
(***************************************************************************)
EXTENDS Integers, Sequences, FiniteSets, TLC

VARIABLES
    file,                 \* api/wemp/versions.json on disk
    upstream,             \* per service: the versions its release API lists
    run,                  \* number of the current process (cron/CI run)
    pc,                   \* position of updateVersions()
    idx,                  \* position of the for-of loop over services
    versions,             \* the in-memory manifest object
    startManifest,        \* the manifest as parsed at line 265 (history)
    pending,              \* locals of the fetcher that awaits an answer
    hasPatchUpdates,      \* line 271
    hasMajorMinorUpdates, \* line 272
    updateSummary,        \* line 274
    majorMinorServices,   \* line 275
    results,              \* line 280
    exitCode,             \* exit status of the process
    ghOutput,             \* what was appended to $GITHUB_OUTPUT
    reqLog,               \* every network request issued in this run
    validated,            \* URLs isValidZip accepted in this run
    writes,               \* number of writeFileSync calls in this run
    cleanRuns,            \* consecutive completed runs with no failed service
    writeRuns,            \* number of runs so far that wrote versions.json
    ciEnv,                \* process.env.GITHUB_ACTIONS && GITHUB_OUTPUT, once read
    cmp                   \* a call of compareVersions: its arguments and result

vars == <<file, upstream, run, pc, idx, versions, startManifest, pending,
          hasPatchUpdates, hasMajorMinorUpdates, updateSummary,
          majorMinorServices, results, exitCode, ghOutput, reqLog,
          validated, writes, cleanRuns, writeRuns, ciEnv, cmp>>

-----------------------------------------------------------------------------
(* Bounds of the model *)

MaxRuns == 3
MaxListLen == 3

\* The highest component of the versions compareVersions is called with.
MaxComp == 2

\* The versions the generic upstream listings and pins are drawn from.
Versions == {<<1, 0, 0>>, <<1, 1, 0>>, <<1, 1, 1>>, <<2, 0, 0>>}

\* The version every service but the freely varied one is pinned at.
BaseVersion == <<1, 1, 0>>

\* The multi-line PHP scenario: tags 8.3.15, 8.2.27 and 8.1.31 upstream,
\* 8.3.14 and 8.2.27 tracked.
ScenarioTags == {<<8, 3, 15>>, <<8, 2, 27>>, <<8, 1, 31>>}
ScenarioPinned == <<8, 3, 14>>
ScenarioTracked == << <<8, 3, 14>>, <<8, 2, 27>> >>

AllVersions == Versions \cup ScenarioTags \cup {ScenarioPinned}

-----------------------------------------------------------------------------
(* Values *)

Services == <<"nginx", "mariadb", "php", "phpmyadmin">>
ServiceSet == {Services[i] : i \in 1..Len(Services)}

Ver(t) == [k |-> "version", v |-> t]
Null == [k |-> "null", v |-> <<>>]
NoneStr == [k |-> "none", v |-> <<>>]

Falsy(x) == x = Null

JsOr(a, b) == IF Falsy(a) THEN b ELSE a

NaN == -1

NoUrl == [svc |-> "", ver |-> <<>>, ext |-> ""]

AbsentEntry ==
    [kind |-> "absent", version |-> Null, downloadUrl |-> NoUrl, versions |-> <<>>]

SingleEntry(version, downloadUrl) ==
    [kind |-> "single", version |-> version, downloadUrl |-> downloadUrl,
     versions |-> <<>>]

MultiEntry(list) ==
    [kind |-> "multi", version |-> Null, downloadUrl |-> NoUrl, versions |-> list]

\* versions[service]?.version
PinnedVersion(manifest, service) == manifest[service].version

NoPending == [updates |-> [patch |-> Null, latest |-> Null],
              bestVersion |-> Null, downloadUrl |-> NoUrl]

\* no call of compareVersions recorded
NoCall == [new |-> Null, cur |-> Null, out |-> [isNewer |-> FALSE, updateType |-> "pending"]]

NoInfo == [present |-> FALSE, version |-> Null, downloadUrl |-> NoUrl,
           updates |-> [patch |-> Null, latest |-> Null]]

-----------------------------------------------------------------------------
(* compareVersions *)

\* v.split('.').map(Number), destructured into three components: 'none' gives
\* [NaN], whose missing components are undefined (NaN in a comparison).
parseVersion(x) == IF x.k = "version" THEN x.v ELSE <<NaN, NaN, NaN>>

JsGt(a, b) == a # NaN /\ b # NaN /\ a > b
JsLt(a, b) == a # NaN /\ b # NaN /\ a < b

NotNewer == [isNewer |-> FALSE, updateType |-> "null"]
Newer(type) == [isNewer |-> TRUE, updateType |-> type]

\* compareVersions without the early returns on a lower component (lines 30, 32)
compareVersionsNoLower(newVersion, currentVersion) ==
    IF Falsy(currentVersion) THEN Newer("major")
    ELSE LET n == parseVersion(newVersion)
             c == parseVersion(currentVersion)
         IN  IF JsGt(n[1], c[1]) THEN Newer("major")
             ELSE IF JsGt(n[2], c[2]) THEN Newer("minor")
             ELSE IF JsGt(n[3], c[3]) THEN Newer("patch")
             ELSE NotNewer

\* compareVersions without the comparison of the patch components (line 33)
compareVersionsNoPatch(newVersion, currentVersion) ==
    IF Falsy(currentVersion) THEN Newer("major")
    ELSE LET n == parseVersion(newVersion)
             c == parseVersion(currentVersion)
         IN  IF JsGt(n[1], c[1]) THEN Newer("major")
             ELSE IF JsLt(n[1], c[1]) THEN NotNewer
             ELSE IF JsGt(n[2], c[2]) THEN Newer("minor")
             ELSE NotNewer

compareVersions(newVersion, currentVersion) ==
    IF Falsy(currentVersion) THEN Newer("major")
    ELSE LET n == parseVersion(newVersion)
             c == parseVersion(currentVersion)
         IN  IF JsGt(n[1], c[1]) THEN Newer("major")
             ELSE IF JsLt(n[1], c[1]) THEN NotNewer
             ELSE IF JsGt(n[2], c[2]) THEN Newer("minor")
             ELSE IF JsLt(n[2], c[2]) THEN NotNewer
             ELSE IF JsGt(n[3], c[3]) THEN Newer("patch")
             ELSE NotNewer

-----------------------------------------------------------------------------
(* isValidZip *)

ProbeOutcomes == {"ok", "notok", "error"}

EndsWithZip(url) == url.ext = "zip"

isValidZip(url, outcome) == outcome = "ok" /\ EndsWithZip(url)

-----------------------------------------------------------------------------
(* findAvailableUpdates *)

SameLine(version, cur) == version[1] = cur[1] /\ version[2] = cur[2]

\* findAvailableUpdates that never offers a patch of the pinned line
findAvailableUpdatesNoPatch(availableVersions, currentVersion) ==
    IF Falsy(currentVersion)
    THEN [patch |-> Null, latest |-> Ver(availableVersions[1])]
    ELSE [patch |-> Null,
          latest |-> IF Ver(availableVersions[1]) # currentVersion
                     THEN Ver(availableVersions[1]) ELSE Null]

findAvailableUpdates(availableVersions, currentVersion) ==
    IF Falsy(currentVersion)
    THEN [patch |-> Null, latest |-> Ver(availableVersions[1])]
    ELSE LET cur == parseVersion(currentVersion)
             isLine(version) == SameLine(version, cur)
             patchUpdates == SelectSeq(availableVersions, isLine)
             latestPatch ==
                 IF Len(patchUpdates) > 0 /\ Ver(patchUpdates[1]) # currentVersion
                 THEN Ver(patchUpdates[1]) ELSE Null
             latestOverall ==
                 IF Ver(availableVersions[1]) # currentVersion
                 THEN Ver(availableVersions[1]) ELSE Null
         IN  [patch |-> latestPatch, latest |-> latestOverall]

-----------------------------------------------------------------------------
(* serviceFetchers *)

\* bMajor - aMajor || bMinor - aMinor || bPatch - aPatch
SortCmp(a, b) ==
    IF b[1] - a[1] # 0 THEN b[1] - a[1]
    ELSE IF b[2] - a[2] # 0 THEN b[2] - a[2]
    ELSE b[3] - a[3]

RECURSIVE SortDesc(_)
SortDesc(S) ==
    IF S = {} THEN <<>>
    ELSE LET first == CHOOSE m \in S : \A x \in S \ {m} : SortCmp(m, x) < 0
         IN  <<first>> \o SortDesc(S \ {first})

\* the URL templates of the nginx, mariadb and phpmyadmin fetchers
TemplateUrl(service, bestVersion) ==
    [svc |-> service, ver |-> bestVersion.v, ext |-> "zip"]

\* releasesData[versionKey] of https://windows.php.net/.../releases.json
NoRelease == [present |-> FALSE, version |-> <<>>, nts |-> FALSE]
ReleaseEntries(bestVersion) ==
    {NoRelease} \cup
    {[present |-> TRUE, version |-> v, nts |-> b] :
        v \in {w \in AllVersions : SameLine(w, bestVersion.v)}, b \in BOOLEAN}

\* the checks of lines 196-210: which answers make the php fetcher throw
PhpReleaseUsable(rel, bestVersion) ==
    rel.present /\ Ver(rel.version) = bestVersion /\ rel.nts

\* https://windows.php.net/downloads/releases/${buildData.zip.path}
PhpUrl(rel) == [svc |-> "php", ver |-> rel.version, ext |-> "zip"]

\* a fetcher that goes on whatever isValidZip answers
ProbeAcceptedAlways(url, outcome) == TRUE

\* what a fetcher does with the answer of isValidZip (lines 130-132)
ProbeAccepted(url, outcome) == isValidZip(url, outcome)

-----------------------------------------------------------------------------
(* updateVersions: the admission of one fetcher result, lines 287-327 *)

\* a patch entry with from and to exchanged
PatchEntrySwapped(service, from, to) ==
    [service |-> service, from |-> to, to |-> from, type |-> "null"]

PatchEntry(service, from, to) ==
    [service |-> service, from |-> from, to |-> to, type |-> "null"]

\* a majorMinor entry with `from` and `to` exchanged
MajorMinorEntrySwapped(service, from, to, type) ==
    [service |-> service, from |-> to, to |-> from, type |-> type]

MajorMinorEntry(service, from, to, type) ==
    [service |-> service, from |-> from, to |-> to, type |-> type]

\* an entry that keeps the version read at line 288 instead of the selected one
NewEntryStale(selectedVersion, currentVersion, downloadUrl) ==
    SingleEntry(currentVersion, downloadUrl)

\* the entry written at lines 320-323
NewEntry(selectedVersion, currentVersion, downloadUrl) ==
    SingleEntry(selectedVersion, downloadUrl)

\* `latest || patch` instead of `patch || latest`
SelectedVersionLatestFirst(patch, latest) == JsOr(latest, patch)

\* line 318
SelectedVersion(patch, latest) == JsOr(patch, latest)

\* lines 292-294
PatchRecorded(patch, currentVersion) ==
    /\ ~Falsy(patch)
    /\ patch # currentVersion
    /\ compareVersions(patch, currentVersion).isNewer

\* lines 302-304
MajorMinorRecorded(patch, latest, currentVersion) ==
    /\ ~Falsy(latest)
    /\ latest # currentVersion
    /\ latest # patch
    /\ compareVersions(latest, currentVersion).isNewer
    /\ compareVersions(latest, currentVersion).updateType # "patch"

Admit(service, info, st) ==
    IF ~info.present THEN st
    ELSE LET currentVersion == JsOr(PinnedVersion(st.versions, service), NoneStr)
             patch == info.updates.patch
             latest == info.updates.latest
             recPatch == PatchRecorded(patch, currentVersion)
             recMM == MajorMinorRecorded(patch, latest, currentVersion)
             selectedVersion == SelectedVersion(patch, latest)
         IN  [versions |->
                 IF ~Falsy(selectedVersion) /\ selectedVersion # currentVersion
                 THEN [st.versions EXCEPT ![service] =
                          NewEntry(selectedVersion, currentVersion, info.downloadUrl)]
                 ELSE st.versions,
              hasPatchUpdates |-> st.hasPatchUpdates \/ recPatch,
              hasMajorMinorUpdates |-> st.hasMajorMinorUpdates \/ recMM,
              updateSummary |->
                 [patch |->
                     IF recPatch
                     THEN Append(st.updateSummary.patch,
                                 PatchEntry(service, currentVersion, patch))
                     ELSE st.updateSummary.patch,
                  majorMinor |->
                     IF recMM
                     THEN Append(st.updateSummary.majorMinor,
                                 MajorMinorEntry(service, currentVersion, latest,
                                     compareVersions(latest, currentVersion).updateType))
                     ELSE st.updateSummary.majorMinor],
              majorMinorServices |->
                 IF recMM THEN st.majorMinorServices \cup {service}
                 ELSE st.majorMinorServices]

RunState == [versions |-> versions,
             hasPatchUpdates |-> hasPatchUpdates,
             hasMajorMinorUpdates |-> hasMajorMinorUpdates,
             updateSummary |-> updateSummary,
             majorMinorServices |-> majorMinorServices]

\* the outputs of lines 359-364 with the two flags exchanged
UpdateOutputsSwapped(hasPatch, hasMajorMinor, summary, services) ==
    [has_patch_updates |-> hasMajorMinor,
     has_major_minor_updates |-> hasPatch,
     has_summary |-> TRUE,
     update_summary |-> summary,
     major_minor_services |-> services]

\* lines 359-364: the outputs of a run that found updates
UpdateOutputs(hasPatch, hasMajorMinor, summary, services) ==
    [has_patch_updates |-> hasPatch,
     has_major_minor_updates |-> hasMajorMinor,
     has_summary |-> TRUE,
     update_summary |-> summary,
     major_minor_services |-> services]

\* line 379: the outputs of a run that found none; no update_summary line
NoUpdateOutputs ==
    [has_patch_updates |-> FALSE,
     has_major_minor_updates |-> FALSE,
     has_summary |-> FALSE,
     update_summary |-> [patch |-> <<>>, majorMinor |-> <<>>],
     major_minor_services |-> {}]

\* a write that does not look at the two flags
ShouldWriteAlways(hasPatch, hasMajorMinor) == TRUE

\* line 348
ShouldWrite(hasPatch, hasMajorMinor) == hasPatch \/ hasMajorMinor

-----------------------------------------------------------------------------
(* Initial states *)

\* the file: whether readFileSync and JSON.parse succeed on it, and what it holds
OnDisk(manifest) == [status |-> "ok", data |-> manifest]
Unreadable(status) == [status |-> status, data |-> [s \in ServiceSet |-> AbsentEntry]]

Readable(f) == f.status = "ok"

Listings == {S \in SUBSET Versions : Cardinality(S) <= MaxListLen}

PinnedAt(service, t) == SingleEntry(Ver(t), TemplateUrl(service, Ver(t)))

\* any pin and any listing for the service that is varied freely
FreePins(service) == {AbsentEntry} \cup {PinnedAt(service, t) : t \in Versions}

\* the other services are up to date or one patch behind
NearListings == {{BaseVersion}, {<<BaseVersion[1], BaseVersion[2], BaseVersion[3] + 1>>}}

FreshRun ==
    /\ run = 1
    /\ pc = "start"
    /\ idx = 1
    /\ versions = [s \in ServiceSet |-> AbsentEntry]
    /\ startManifest = [s \in ServiceSet |-> AbsentEntry]
    /\ pending = NoPending
    /\ hasPatchUpdates = FALSE
    /\ hasMajorMinorUpdates = FALSE
    /\ updateSummary = [patch |-> <<>>, majorMinor |-> <<>>]
    /\ majorMinorServices = {}
    /\ results = <<>>
    /\ exitCode = -1
    /\ ghOutput = <<>>
    /\ reqLog = <<>>
    /\ validated = {}
    /\ writes = 0
    /\ cleanRuns = 0
    /\ writeRuns = 0
    /\ ciEnv = "unread"

InitGeneric ==
    \E free \in ServiceSet :
        /\ file \in {OnDisk([s \in ServiceSet |->
                                IF s = free THEN e ELSE PinnedAt(s, BaseVersion)]) :
                     e \in FreePins(free)}
        /\ upstream \in {u \in [ServiceSet -> Listings] :
                            \A s \in ServiceSet : s # free => u[s] \in NearListings}

InitScenario ==
    /\ file \in {OnDisk([s \in ServiceSet |->
                    IF s = "php" THEN e ELSE PinnedAt(s, BaseVersion)]) :
                 e \in {PinnedAt("php", ScenarioPinned), MultiEntry(ScenarioTracked)}}
    /\ upstream \in {u \in [ServiceSet -> NearListings \cup {ScenarioTags}] :
                        \A s \in ServiceSet :
                            IF s = "php" THEN u[s] = ScenarioTags
                            ELSE u[s] \in NearListings}

InitBroken ==
    /\ file \in {Unreadable("missing"), Unreadable("invalid")}
    /\ upstream = [s \in ServiceSet |-> {BaseVersion}]

Init == FreshRun /\ cmp = NoCall /\ (InitGeneric \/ InitScenario \/ InitBroken)

-----------------------------------------------------------------------------
(* Actions *)

service == Services[idx]

\* a start that goes on with an empty manifest when the file cannot be read
ReadManifestLenient ==
    /\ pc = "start"
    /\ versions' = IF Readable(file) THEN file.data
                   ELSE [s \in ServiceSet |-> AbsentEntry]
    /\ startManifest' = versions'
    /\ pc' = "loop"
    /\ UNCHANGED <<file, upstream, run, idx, pending, hasPatchUpdates,
                   hasMajorMinorUpdates, updateSummary, majorMinorServices,
                   results, exitCode, ghOutput, reqLog, validated, writes,
                   cleanRuns, writeRuns, ciEnv, cmp>>

\* lines 262-277: JSON.parse(fs.readFileSync(...)), rethrown when it fails and
\* caught at line 387
ReadManifest ==
    /\ pc = "start"
    /\ IF Readable(file)
       THEN /\ versions' = file.data
            /\ startManifest' = file.data
            /\ pc' = "loop"
            /\ exitCode' = exitCode
       ELSE /\ pc' = "exited"
            /\ exitCode' = 1
            /\ UNCHANGED <<versions, startManifest>>
    /\ UNCHANGED <<file, upstream, run, idx, pending, hasPatchUpdates,
                   hasMajorMinorUpdates, updateSummary, majorMinorServices,
                   results, ghOutput, reqLog, validated, writes, cleanRuns, writeRuns, ciEnv, cmp>>

\* lines 281-285 and the first fetchJson of the fetcher
BeginService ==
    /\ pc = "loop"
    /\ idx <= Len(Services)
    /\ pc' = "listing"
    /\ reqLog' = Append(reqLog, <<service, "listing">>)
    /\ UNCHANGED <<file, upstream, run, idx, versions, startManifest, pending,
                   hasPatchUpdates, hasMajorMinorUpdates, updateSummary,
                   majorMinorServices, results, exitCode, ghOutput, validated,
                   writes, cleanRuns, writeRuns, ciEnv, cmp>>

\* lines 287-329: the fetcher returned `info`
Complete(info) ==
    LET st == Admit(service, info, RunState)
    IN  /\ versions' = st.versions
        /\ hasPatchUpdates' = st.hasPatchUpdates
        /\ hasMajorMinorUpdates' = st.hasMajorMinorUpdates
        /\ updateSummary' = st.updateSummary
        /\ majorMinorServices' = st.majorMinorServices
        /\ results' = Append(results, [service |-> service, success |-> TRUE])
        /\ idx' = idx + 1
        /\ pc' = "loop"
        /\ pending' = NoPending

\* a catch that leaves the loop: the services after the failed one are skipped
CaughtAborting ==
    /\ results' = Append(results, [service |-> service, success |-> FALSE])
    /\ idx' = Len(Services) + 1
    /\ pc' = "loop"
    /\ pending' = NoPending
    /\ UNCHANGED <<versions, hasPatchUpdates, hasMajorMinorUpdates,
                   updateSummary, majorMinorServices>>

\* a catch that drops the manifest entry of the failed service
CaughtDropsEntry ==
    /\ results' = Append(results, [service |-> service, success |-> FALSE])
    /\ idx' = idx + 1
    /\ pc' = "loop"
    /\ pending' = NoPending
    /\ versions' = [versions EXCEPT ![service] = AbsentEntry]
    /\ UNCHANGED <<hasPatchUpdates, hasMajorMinorUpdates,
                   updateSummary, majorMinorServices>>

\* a catch that runs the same service again
CaughtRetrying ==
    /\ results' = Append(results, [service |-> service, success |-> FALSE])
    /\ idx' = idx
    /\ pc' = "loop"
    /\ pending' = NoPending
    /\ UNCHANGED <<versions, hasPatchUpdates, hasMajorMinorUpdates,
                   updateSummary, majorMinorServices>>

\* lines 330-333: the fetcher threw
Caught ==
    /\ results' = Append(results, [service |-> service, success |-> FALSE])
    /\ idx' = idx + 1
    /\ pc' = "loop"
    /\ pending' = NoPending
    /\ UNCHANGED <<versions, hasPatchUpdates, hasMajorMinorUpdates,
                   updateSummary, majorMinorServices>>

\* the listing request is answered: the fetcher filters, sorts, calls
\* findAvailableUpdates and picks bestVersion
ListingResponds ==
    /\ pc = "listing"
    /\ \E ok \in BOOLEAN :
        IF ~ok THEN Caught /\ UNCHANGED <<reqLog>>
        ELSE LET currentVersion == PinnedVersion(versions, service)
                 available == SortDesc(upstream[service])
                 updates == findAvailableUpdates(available, currentVersion)
                 bestVersion == JsOr(updates.patch, updates.latest)
             IN  IF Len(available) = 0 THEN Complete(NoInfo) /\ UNCHANGED <<reqLog>>
                 ELSE IF Falsy(bestVersion) THEN Complete(NoInfo) /\ UNCHANGED <<reqLog>>
                 ELSE /\ pending' = [updates |-> updates,
                                     bestVersion |-> bestVersion,
                                     downloadUrl |->
                                        IF service = "php" THEN NoUrl
                                        ELSE TemplateUrl(service, bestVersion)]
                      /\ pc' = IF service = "php" THEN "releases" ELSE "probe"
                      /\ reqLog' = Append(reqLog,
                            <<service, IF service = "php" THEN "releases" ELSE "probe">>)
                      /\ UNCHANGED <<idx, versions, hasPatchUpdates,
                                     hasMajorMinorUpdates, updateSummary,
                                     majorMinorServices, results>>
    /\ UNCHANGED <<file, upstream, run, startManifest, exitCode, ghOutput,
                   validated, writes, cleanRuns, writeRuns, ciEnv, cmp>>

\* the HEAD request of isValidZip is answered (nginx, mariadb, phpmyadmin)
ProbeResponds ==
    /\ pc = "probe"
    /\ \E outcome \in ProbeOutcomes :
        IF ProbeAccepted(pending.downloadUrl, outcome)
        THEN /\ Complete([present |-> TRUE, version |-> pending.bestVersion,
                          downloadUrl |-> pending.downloadUrl,
                          updates |-> pending.updates])
             /\ validated' = IF isValidZip(pending.downloadUrl, outcome)
                             THEN validated \cup {pending.downloadUrl}
                             ELSE validated
        ELSE Caught /\ UNCHANGED <<validated>>
    /\ UNCHANGED <<file, upstream, run, startManifest, exitCode, ghOutput,
                   reqLog, writes, cleanRuns, writeRuns, ciEnv, cmp>>

\* the request for releases.json is answered (php)
ReleasesResponds ==
    /\ pc = "releases"
    /\ \E ok \in BOOLEAN, rel \in ReleaseEntries(pending.bestVersion) :
        IF ok /\ PhpReleaseUsable(rel, pending.bestVersion)
        THEN Complete([present |-> TRUE, version |-> pending.bestVersion,
                       downloadUrl |-> PhpUrl(rel), updates |-> pending.updates])
        ELSE Caught
    /\ UNCHANGED <<file, upstream, run, startManifest, exitCode, ghOutput,
                   reqLog, validated, writes, cleanRuns, writeRuns, ciEnv, cmp>>

AllSucceeded == \A i \in 1..Len(results) : results[i].success

\* lines 336-382: the summary, the write of versions.json, the outputs
Finish ==
    /\ pc = "loop"
    /\ idx > Len(Services)
    /\ \E ci \in BOOLEAN :
        /\ ciEnv' = IF ci THEN "ci" ELSE "local"
        /\ IF ShouldWrite(hasPatchUpdates, hasMajorMinorUpdates)
           THEN /\ file' = OnDisk(versions)
                /\ writes' = writes + 1
                /\ writeRuns' = writeRuns + 1
                /\ ghOutput' =
                     IF ci
                     THEN Append(ghOutput,
                            UpdateOutputs(hasPatchUpdates, hasMajorMinorUpdates,
                                          updateSummary, majorMinorServices))
                     ELSE ghOutput
           ELSE /\ UNCHANGED <<file, writes, writeRuns>>
                /\ ghOutput' = IF ci THEN Append(ghOutput, NoUpdateOutputs)
                               ELSE ghOutput
    /\ pc' = "exited"
    /\ exitCode' = 0
    /\ cleanRuns' = IF AllSucceeded THEN cleanRuns + 1 ELSE 0
    /\ UNCHANGED <<upstream, run, idx, versions, startManifest, pending,
                   hasPatchUpdates, hasMajorMinorUpdates, updateSummary,
                   majorMinorServices, results, reqLog, validated, cmp>>

\* the next scheduled run: a new process against the same upstream
Rerun ==
    /\ pc = "exited"
    /\ exitCode = 0
    /\ AllSucceeded
    /\ run < MaxRuns
    /\ run' = run + 1
    /\ pc' = "start"
    /\ idx' = 1
    /\ versions' = [s \in ServiceSet |-> AbsentEntry]
    /\ startManifest' = [s \in ServiceSet |-> AbsentEntry]
    /\ pending' = NoPending
    /\ hasPatchUpdates' = FALSE
    /\ hasMajorMinorUpdates' = FALSE
    /\ updateSummary' = [patch |-> <<>>, majorMinor |-> <<>>]
    /\ majorMinorServices' = {}
    /\ results' = <<>>
    /\ exitCode' = -1
    /\ ghOutput' = <<>>
    /\ reqLog' = <<>>
    /\ validated' = {}
    /\ writes' = 0
    /\ ciEnv' = "unread"
    /\ UNCHANGED <<file, upstream, cleanRuns, writeRuns, cmp>>

Next ==
    \/ ReadManifest
    \/ BeginService
    \/ ListingResponds
    \/ ProbeResponds
    \/ ReleasesResponds
    \/ Finish
    \/ Rerun

Spec == Init /\ [][Next]_vars

-----------------------------------------------------------------------------
(* Reference notions the properties are stated with *)

\* (a1, a2, a3) strictly greater than (b1, b2, b3) in (major, minor, patch) order
IsGreater(a, b) ==
    \/ a[1] > b[1]
    \/ a[1] = b[1] /\ a[2] > b[2]
    \/ a[1] = b[1] /\ a[2] = b[2] /\ a[3] > b[3]

\* the highest version of a non-empty set
Highest(S) == CHOOSE m \in S : \A x \in S \ {m} : IsGreater(m, x)

\* the versions upstream lists in the major.minor line of `cur`
LineOf(S, cur) == {v \in S : v[1] = cur[1] /\ v[2] = cur[2]}

\* the URL a fetcher produces for a version
UrlBuiltFor(s, t) == [svc |-> s, ver |-> t, ext |-> "zip"]

Processed(s) == \E i \in 1..Len(results) : results[i].service = s
Succeeded(s) == \E i \in 1..Len(results) : results[i].service = s /\ results[i].success
Failed(s) == \E i \in 1..Len(results) : results[i].service = s /\ ~results[i].success

PatchEntriesOf(s) ==
    {i \in 1..Len(updateSummary.patch) : updateSummary.patch[i].service = s}
MajorMinorEntriesOf(s) ==
    {i \in 1..Len(updateSummary.majorMinor) : updateSummary.majorMinor[i].service = s}

SummaryEmpty == updateSummary.patch = <<>> /\ updateSummary.majorMinor = <<>>

Completed == pc = "exited" /\ exitCode = 0

-----------------------------------------------------------------------------
(* C1 *)

\* C1 as stated: when a run with no failed service follows a run with no failed
\* service against the same upstream, the second run does not write
\* versions.json, leaves it as it was read, and ends with both buckets empty.
C1_SecondRunIdle ==
    (Completed /\ cleanRuns >= 2) =>
        /\ writes = 0
        /\ file.data = startManifest
        /\ SummaryEmpty

\* C1 amended: idempotence is reached one run later.  When a run with no failed
\* service follows two runs with no failed service against the same upstream,
\* it does not write versions.json, leaves it as it was read, and ends with
\* both buckets of the summary empty.
C1_ThirdRunIdle ==
    (Completed /\ cleanRuns >= 3) =>
        /\ writes = 0
        /\ file.data = startManifest
        /\ SummaryEmpty

\* a third run in a row ends, after the two runs before it each wrote the file
C1_Witness ==
    Completed /\ cleanRuns >= 3 /\ writeRuns = 2 /\ writes = 0

-----------------------------------------------------------------------------
(* C2 *)

\* C2: for a service with a pinned version, versions.json never comes to hold
\* a version for it that is not strictly greater than the pinned one in
\* (major, minor, patch) order: a candidate that is not greater leaves the
\* entry as it was.
C2_NeverLowered ==
    \A s \in ServiceSet :
        (/\ pc # "start"
         /\ Readable(file)
         /\ startManifest[s].kind = "single"
         /\ file.data[s] # startManifest[s]) =>
            /\ file.data[s].version.k = "version"
            /\ IsGreater(file.data[s].version.v, startManifest[s].version.v)

-----------------------------------------------------------------------------
(* C3 *)

\* C3: when a service has no pinned version and its fetcher returned a
\* candidate, the run records it in the majorMinor bucket as a 'major' update,
\* sets hasMajorMinorUpdates, records nothing for it in the patch bucket, and
\* the finished run has written the new entry to versions.json.
C3_FirstInstallSurfaced ==
    \A s \in ServiceSet :
        (startManifest[s].kind = "absent" /\ Succeeded(s) /\ versions[s].kind = "single") =>
            /\ \E i \in MajorMinorEntriesOf(s) :
                  /\ updateSummary.majorMinor[i].type = "major"
                  /\ updateSummary.majorMinor[i].to = versions[s].version
            /\ hasMajorMinorUpdates
            /\ PatchEntriesOf(s) = {}
            /\ (Completed => file.data[s] = versions[s])

-----------------------------------------------------------------------------
(* C4 *)

-----------------------------------------------------------------------------
(* C5 *)

\* C5: for a service pinned at X.Y.Z whose highest upstream version is X.Y.Z'
\* with Z' > Z and whose fetcher succeeded, the manifest entry holds X.Y.Z' and
\* the URL built for it, the patch bucket holds exactly one entry for the
\* service, {service, from: X.Y.Z, to: X.Y.Z'}, hasPatchUpdates is set, and the
\* majorMinor bucket holds nothing for the service.
C5_PatchAdmission ==
    \A s \in ServiceSet :
        (/\ Succeeded(s)
         /\ startManifest[s].kind = "single"
         /\ upstream[s] # {}
         /\ LET top == Highest(upstream[s])
                cur == startManifest[s].version.v
            IN  top[1] = cur[1] /\ top[2] = cur[2] /\ top[3] > cur[3])
        => LET top == Highest(upstream[s])
           IN  /\ versions[s] = SingleEntry(Ver(top), UrlBuiltFor(s, top))
               /\ Cardinality(PatchEntriesOf(s)) = 1
               /\ \A i \in PatchEntriesOf(s) :
                     updateSummary.patch[i] =
                        [service |-> s, from |-> startManifest[s].version,
                         to |-> Ver(top), type |-> "null"]
               /\ hasPatchUpdates
               /\ MajorMinorEntriesOf(s) = {}

\* a finished run that admitted a patch update and wrote it
C5_Witness ==
    /\ Completed
    /\ \E s \in ServiceSet :
          /\ PatchEntriesOf(s) # {}
          /\ startManifest[s].kind = "single"
          /\ file.data[s].version.v[3] > startManifest[s].version.v[3]

-----------------------------------------------------------------------------
(* C6 *)

\* what the run pins for a service whose fetcher returned a candidate: the
\* highest listed version of the pinned line when there is one other than the
\* pinned version, else the highest listed version
ExpectedPin(s) ==
    LET cur == startManifest[s].version
        line == IF cur.k = "version" THEN LineOf(upstream[s], cur.v) ELSE {}
    IN  IF line # {} /\ Highest(line) # cur.v THEN Highest(line)
        ELSE Highest(upstream[s])

\* The part of C6 that holds: whatever subset of the fetchers throws, the loop
\* handles all four services, the run exits 0, and every service that did not
\* fail and has an entry in a bucket of the summary is pinned in versions.json
\* at the version, and with the URL, that its own pin and its own upstream
\* listing determine.
FlaggedUpdatesIsolated ==
    /\ (pc = "exited" /\ Readable(file)) =>
          /\ exitCode = 0
          /\ \A s \in ServiceSet : Processed(s)
          /\ Len(results) = Len(Services)
          /\ \A s \in ServiceSet :
                (Succeeded(s) /\ (PatchEntriesOf(s) # {} \/ MajorMinorEntriesOf(s) # {})) =>
                    /\ writes = 1
                    /\ file.data[s] =
                          SingleEntry(Ver(ExpectedPin(s)), UrlBuiltFor(s, ExpectedPin(s)))
    /\ \A s \in ServiceSet :
          (pc # "start" /\ ~Processed(s)) => versions[s] = startManifest[s]

\* what a fetcher returns for a service when none of its requests fails
FetcherResult(s, manifest) ==
    LET available == SortDesc(upstream[s])
        updates == findAvailableUpdates(available, PinnedVersion(manifest, s))
        bestVersion == JsOr(updates.patch, updates.latest)
    IN  IF Len(available) = 0 THEN NoInfo
        ELSE IF Falsy(bestVersion) THEN NoInfo
        ELSE [present |-> TRUE, version |-> bestVersion,
              downloadUrl |-> UrlBuiltFor(s, bestVersion.v), updates |-> updates]

\* the loop of updateVersions from service i on when no fetcher throws
RECURSIVE RunWithoutFailure(_, _)
RunWithoutFailure(i, st) ==
    IF i > Len(Services) THEN st
    ELSE RunWithoutFailure(i + 1,
            Admit(Services[i], FetcherResult(Services[i], st.versions), st))

\* versions.json after a run from startManifest in which no fetcher throws
FileWithoutFailure ==
    LET st == RunWithoutFailure(1,
                [versions |-> startManifest,
                 hasPatchUpdates |-> FALSE,
                 hasMajorMinorUpdates |-> FALSE,
                 updateSummary |-> [patch |-> <<>>, majorMinor |-> <<>>],
                 majorMinorServices |-> {}])
    IN  IF ShouldWrite(st.hasPatchUpdates, st.hasMajorMinorUpdates)
        THEN st.versions ELSE startManifest

\* C6 in full: whatever subset of the fetchers throws, the run exits 0 having
\* handled all four services, and versions.json then holds, for every service
\* whose fetcher did not throw, the entry it holds after a run in which no
\* fetcher throws.
C6_PersistedAsWithoutFailure ==
    (pc = "exited" /\ Readable(file)) =>
        /\ exitCode = 0
        /\ Len(results) = Len(Services)
        /\ \A s \in ServiceSet :
              Succeeded(s) => file.data[s] = FileWithoutFailure[s]

\* a finished run in which one fetcher threw and another service was updated
FlaggedUpdatesIsolated_Witness ==
    /\ Completed
    /\ \E s, t \in ServiceSet :
          /\ Failed(s)
          /\ Succeeded(t)
          /\ PatchEntriesOf(t) # {}
          /\ file.data[t] # startManifest[t]
          /\ \E i, j \in 1..Len(results) :
                i < j /\ results[i].service = s /\ results[j].service = t

-----------------------------------------------------------------------------
(* C7 *)

ScenarioTop == Highest(ScenarioTags)

-----------------------------------------------------------------------------
(* C8 *)

Changed(s) == pc # "start" /\ versions[s] # startManifest[s]

ProbedFor(s) == \E i \in 1..Len(reqLog) : reqLog[i] = <<s, "probe">>

\* C8 as stated: for each of the four services, a downloadUrl is written into
\* the manifest only if isValidZip accepted that URL earlier in the same run,
\* and a service whose fetcher failed keeps its entry.
C8_AllValidated ==
    \A s \in ServiceSet :
        /\ Changed(s) => versions[s].downloadUrl \in validated
        /\ Failed(s) => versions[s] = startManifest[s]

\* C8 amended: for nginx, mariadb and phpmyadmin a downloadUrl is written into
\* the manifest only if isValidZip accepted that URL earlier in the same run;
\* the php fetcher takes its downloadUrl from the Windows release index and it
\* is written without any validator probe.  A service whose fetcher failed
\* keeps its entry.
C8_ValidatedExceptPhp ==
    \A s \in ServiceSet :
        /\ (Changed(s) /\ s # "php") =>
              /\ versions[s].downloadUrl \in validated
              /\ ProbedFor(s)
        /\ (Changed(s) /\ s = "php") =>
              /\ versions[s].downloadUrl \notin validated
              /\ ~ProbedFor(s)
        /\ Failed(s) => versions[s] = startManifest[s]

\* a run that wrote a validated URL for one service and rejected another's
C8_Witness ==
    \E s, t \in ServiceSet :
        /\ s # "php"
        /\ Changed(s)
        /\ versions[s].downloadUrl \in validated
        /\ Failed(t)
        /\ ProbedFor(t)

-----------------------------------------------------------------------------
(* C9 *)

\* C9: in every run versions.json is written at most once, only by the step
\* that follows the loop over all four services, and only if the entry of at
\* least one service changed during the run; until then, and in a run that
\* changed no entry or stopped at the start, the file is as it was read.
C9_PersistenceDiscipline ==
    /\ writes <= 1
    /\ writes = 1 =>
          /\ pc = "exited"
          /\ exitCode = 0
          /\ Len(results) = Len(Services)
          /\ \E s \in ServiceSet : versions[s] # startManifest[s]
          /\ file = OnDisk(versions)
    /\ (writes = 0 /\ pc # "start" /\ Readable(file)) => file.data = startManifest
    /\ (pc = "exited" /\ Readable(file) /\ versions = startManifest) => writes = 0
    /\ (pc = "exited" /\ exitCode # 0) => writes = 0

\* a finished run that wrote the file after an entry changed
C9_Witness ==
    /\ Completed
    /\ writes = 1
    /\ file.data # startManifest

-----------------------------------------------------------------------------
(* C10 *)

\* C10: when versions.json is missing or is not valid JSON, the run stops at
\* the start: no fetcher is invoked, no request is issued, neither
\* versions.json nor $GITHUB_OUTPUT is written, and the process exits non-zero.
C10_FatalStartup ==
    (~Readable(file) /\ pc # "start") =>
        /\ pc = "exited"
        /\ exitCode = 1
        /\ results = <<>>
        /\ reqLog = <<>>
        /\ writes = 0
        /\ ghOutput = <<>>
        /\ idx = 1

\* the run stopped on an unreadable manifest
C10_Witness ==
    ~Readable(file) /\ pc = "exited" /\ exitCode = 1

-----------------------------------------------------------------------------
(* C11 *)

\* what the run appended to $GITHUB_OUTPUT, when it appended one block
Outputs == ghOutput[1]

\* each flag written to the output is true exactly when its bucket is non-empty
FlagsMatchBuckets ==
    /\ Outputs.has_patch_updates <=> (updateSummary.patch # <<>>)
    /\ Outputs.has_major_minor_updates <=> (updateSummary.majorMinor # <<>>)

\* C11 as stated: every completed run inside CI, with or without updates,
\* appends the two flags and the serialized summary, and each flag is true
\* exactly when its bucket of that summary is non-empty.
C11_SignalsAlways ==
    (Completed /\ ciEnv = "ci") =>
        /\ Len(ghOutput) = 1
        /\ Outputs.has_summary
        /\ Outputs.update_summary = updateSummary
        /\ FlagsMatchBuckets

\* C11 amended: a completed run inside CI appends exactly one block holding
\* the two flags and major_minor_services, each flag true exactly when its
\* bucket is non-empty; the block holds the serialized summary exactly when
\* some bucket is non-empty, and then it is the run's summary and
\* major_minor_services is the set of services of the majorMinor bucket.  A
\* run with both buckets empty writes both flags false, an empty
\* major_minor_services and no update_summary.  Outside CI nothing is appended.
C11_SignalsWhenUpdates ==
    /\ (pc = "exited" /\ ciEnv = "local") => ghOutput = <<>>
    /\ pc # "exited" => (ghOutput = <<>> /\ ciEnv = "unread")
    /\ (Completed /\ ciEnv = "ci") =>
        /\ Len(ghOutput) = 1
        /\ FlagsMatchBuckets
        /\ Outputs.has_summary <=> ~SummaryEmpty
        /\ Outputs.has_summary => Outputs.update_summary = updateSummary
        /\ Outputs.major_minor_services =
              {s \in ServiceSet : MajorMinorEntriesOf(s) # {}}

\* a CI run that ended with a patch entry and no majorMinor entry, and one
\* block written
C11_Witness ==
    /\ Completed
    /\ ciEnv = "ci"
    /\ Len(ghOutput) = 1
    /\ updateSummary.patch # <<>>
    /\ updateSummary.majorMinor = <<>>
    /\ Outputs.has_patch_updates
    /\ ~Outputs.has_major_minor_updates

-----------------------------------------------------------------------------
(* C12 *)

-----------------------------------------------------------------------------
(* C13 *)

\* the position of a service in Object.keys(serviceFetchers)
PositionOf(s) == CHOOSE i \in 1..Len(Services) : Services[i] = s

\* a request has been issued and its answer is awaited
InFlight == pc \in {"listing", "probe", "releases"}

\* C13: services are processed in the order nginx, mariadb, php, phpmyadmin.
\* Requests are issued in that order of services and results are recorded in
\* it; no request is issued twice for a service in a run; a service's first
\* request is its listing fetch and it issues at most one more; the one
\* request in flight is the last one issued and belongs to the service being
\* processed, and every service a request was issued for before has a
\* recorded result; between two services no request is outstanding.
C13_Sequential ==
    /\ \A i, j \in 1..Len(reqLog) :
          i < j => /\ reqLog[i] # reqLog[j]
                   /\ PositionOf(reqLog[i][1]) <= PositionOf(reqLog[j][1])
    /\ \A i \in 1..Len(results) : results[i].service = Services[i]
    /\ \A s \in ServiceSet :
          LET mine == {i \in 1..Len(reqLog) : reqLog[i][1] = s}
          IN  /\ Cardinality(mine) <= 2
              /\ mine # {} =>
                    reqLog[CHOOSE i \in mine : \A j \in mine : i <= j][2] = "listing"
    /\ InFlight =>
          /\ idx \in 1..Len(Services)
          /\ Len(results) = idx - 1
          /\ reqLog[Len(reqLog)] = <<Services[idx], pc>>
          /\ \A i \in 1..Len(reqLog) :
                reqLog[i][1] # Services[idx] => Processed(reqLog[i][1])
    /\ pc = "loop" =>
          /\ Len(results) = idx - 1
          /\ \A i \in 1..Len(reqLog) : Processed(reqLog[i][1])

\* the probe of the last service is in flight after a failed service and a
\* service that issued both of its requests
C13_Witness ==
    /\ pc = "probe"
    /\ idx = Len(Services)
    /\ Len(results) = 3
    /\ Failed("nginx")
    /\ Len(reqLog) >= 6

-----------------------------------------------------------------------------
(* C14 *)

\* C14: when the fetcher of a service throws, the service is recorded once,
\* as a failed result; its manifest entry in memory, and in versions.json
\* once the run has ended, equals its entry before the run; it has no entry
\* in either bucket and is not in majorMinorServices; and it sets neither
\* flag: each flag is true exactly when a service that did not fail has an
\* entry in the corresponding bucket.
C14_FailedUntouched ==
    /\ \A s \in ServiceSet :
          Failed(s) =>
            /\ Cardinality({i \in 1..Len(results) : results[i].service = s}) = 1
            /\ ~Succeeded(s)
            /\ versions[s] = startManifest[s]
            /\ pc = "exited" => file.data[s] = startManifest[s]
            /\ PatchEntriesOf(s) = {}
            /\ MajorMinorEntriesOf(s) = {}
            /\ s \notin majorMinorServices
    /\ hasPatchUpdates <=>
          \E s \in ServiceSet : ~Failed(s) /\ PatchEntriesOf(s) # {}
    /\ hasMajorMinorUpdates <=>
          \E s \in ServiceSet : ~Failed(s) /\ MajorMinorEntriesOf(s) # {}

\* a run that wrote the file for one service while the probe of another,
\* whose listing offered an update, had failed
C14_Witness ==
    /\ Completed
    /\ writes = 1
    /\ \E s \in ServiceSet :
          /\ Failed(s)
          /\ ProbedFor(s)
          /\ file.data[s] = startManifest[s]
          /\ startManifest[s].kind = "single"

-----------------------------------------------------------------------------
(* C15 *)

\* the well-formed versions a call is made with
Components == 0..MaxComp
WellFormed == Components \X Components \X Components

\* a call of compareVersions(newVersion, currentVersion) about to be made:
\* newVersion is well formed, currentVersion is well formed or absent
InitCompare ==
    /\ FreshRun
    /\ file = Unreadable("missing")
    /\ upstream = [s \in ServiceSet |-> {}]
    /\ cmp \in [new : {Ver(t) : t \in WellFormed},
                cur : {Ver(t) : t \in WellFormed} \cup {Null},
                out : {NoCall.out}]

\* the call returns
Compare ==
    /\ cmp.out = NoCall.out
    /\ cmp' = [cmp EXCEPT !.out = compareVersions(cmp.new, cmp.cur)]
    /\ UNCHANGED <<file, upstream, run, pc, idx, versions, startManifest, pending,
                   hasPatchUpdates, hasMajorMinorUpdates, updateSummary,
                   majorMinorServices, results, exitCode, ghOutput, reqLog,
                   validated, writes, cleanRuns, writeRuns, ciEnv>>

NextCompare == Compare

SpecCompare == InitCompare /\ [][NextCompare]_vars

\* the tag of the first position where two versions differ
FirstDifference(a, b) ==
    IF a[1] # b[1] THEN "major" ELSE IF a[2] # b[2] THEN "minor" ELSE "patch"

Returned == cmp.out # NoCall.out

\* C15: for every well-formed candidate (a,b,c) and current (x,y,z),
\* compareVersions returns isNewer true exactly when (a,b,c) is strictly
\* greater than (x,y,z) lexicographically, with updateType the first
\* position where they differ; an equal or lower candidate gives isNewer
\* false and updateType null; an absent current gives isNewer true and
\* updateType major for every candidate.
C15_Reference ==
    Returned =>
        IF cmp.cur = Null THEN cmp.out = [isNewer |-> TRUE, updateType |-> "major"]
        ELSE LET a == cmp.new.v
                 b == cmp.cur.v
             IN  /\ cmp.out.isNewer <=> IsGreater(a, b)
                 /\ cmp.out.isNewer => cmp.out.updateType = FirstDifference(a, b)
                 /\ ~cmp.out.isNewer => cmp.out.updateType = "null"

\* a call whose minor component decided although the candidate's patch
\* component is the lower one
C15_Witness ==
    /\ Returned
    /\ cmp.cur # Null
    /\ cmp.out = [isNewer |-> TRUE, updateType |-> "minor"]
    /\ cmp.new.v[3] < cmp.cur.v[3]

-----------------------------------------------------------------------------
(* C16 *)

\* the run started with service s pinned at a version its upstream lists
PinnedInUpstream(s) ==
    /\ pc # "start"
    /\ Readable(file)
    /\ startManifest[s].kind = "single"
    /\ startManifest[s].version.k = "version"
    /\ startManifest[s].version.v \in upstream[s]

\* the run has ended and the fetcher of s did not throw
EndedWith(s) == Completed /\ Succeeded(s)

\* C16: for a service pinned at a version its upstream lists, under a fixed
\* upstream and with no fetcher failing, a run pins the highest listed
\* version of the pinned major.minor line when that is not the pinned one,
\* even when a higher major/minor version is listed, and otherwise the
\* highest listed version; the version it pins is again a listed one; from
\* the end of the second run on versions.json holds the highest listed
\* version; and from the third run on the fetcher returns no candidate after
\* its listing fetch, the entry is left as it was read, and the service has
\* no entry in either bucket.
C16_Convergence ==
    \A s \in ServiceSet :
        (PinnedInUpstream(s) /\ EndedWith(s)) =>
            /\ file.data[s] =
                  IF ExpectedPin(s) = startManifest[s].version.v
                  THEN startManifest[s]
                  ELSE SingleEntry(Ver(ExpectedPin(s)), UrlBuiltFor(s, ExpectedPin(s)))
            /\ file.data[s].version.v \in upstream[s]
            /\ run >= 2 => file.data[s].version = Ver(Highest(upstream[s]))
            /\ run >= 3 =>
                  /\ \A i \in 1..Len(reqLog) :
                        reqLog[i][1] = s => reqLog[i][2] = "listing"
                  /\ versions[s] = startManifest[s]
                  /\ file.data[s] = startManifest[s]
                  /\ PatchEntriesOf(s) = {}
                  /\ MajorMinorEntriesOf(s) = {}

\* the second run has moved a service from the highest version of its line,
\* where the first run had put it, to the highest version listed
C16_Witness ==
    /\ Completed
    /\ run = 2
    /\ writeRuns = 2
    /\ \E s \in ServiceSet :
          /\ PinnedInUpstream(s)
          /\ Succeeded(s)
          /\ Cardinality(LineOf(upstream[s], startManifest[s].version.v)) >= 2
          /\ startManifest[s].version.v =
                Highest(LineOf(upstream[s], startManifest[s].version.v))
          /\ MajorMinorEntriesOf(s) # {}
          /\ file.data[s].version = Ver(Highest(upstream[s]))
          /\ file.data[s] # startManifest[s]

====
